---- MODULE Spec2Model ----
(***************************************************************************)
(* Rate-Limited Nullifier (RLN): the Solidity ledger contract RLN, the     *)
(* SDK's share engine and secret recovery, and the SDK's MerkleTree.       *)
(*                                                                         *)
(*   Spec       the contract RLN (registerIdentity, postMessage, slash,    *)
(*              updateRoot) under a moving block timestamp                 *)
(*   SpecShare  RLNIdentity.generateShare and the SDK's recoverSecret on   *)
(*              the shares it makes, over a small prime field              *)
(*   SpecRecover  recoverSecret of the SDK and of the contract on          *)
(*              arbitrary points                                           *)
(*   SpecTree   MerkleTree: constructor, buildTree, insert, getProof,      *)
(*              getRoot                                                    *)
(*   SpecRln    one RLN instance of the SDK: init, registerIdentity        *)
(*   SpecRlnAsync  registerIdentity calls interleaved at their await       *)
(*   SpecCli    the CLI: post-message (with generateProof and              *)
(*              verifyProof), detect-spam and verify-message               *)
(*   SpecProof  generateProof on one RLN instance, against the outputs of  *)
(*              the circuit RLN(DEPTH, LIMIT_BIT_SIZE)                     *)
(***************************************************************************)
EXTENDS Integers, Sequences, FiniteSets, TLC

(***************************************************************************)
(* Bounds of the model.                                                    *)
(***************************************************************************)
NumNullifiers == 2
MaxTime == 2
MaxRegistrations == 2

(***************************************************************************)
(* Constructor arguments of the contract (the test deploys it with a       *)
(* deposit of 1 ether and an epoch of 3600 s; scaled down here).           *)
(***************************************************************************)
membershipDeposit == 2
epochLength == 2

Commitments == {1, 2}
Nullifiers == 1..NumNullifiers
Accounts == {"alice"}
SignalHashes == {0, 1}
Ys == {0, 1}
\* the shares (signalHash, y) that callers submit
Shares == {[x |-> 0, y |-> 1], [x |-> 1, y |-> 0], [x |-> 1, y |-> 1]}
Values == {membershipDeposit - 1, membershipDeposit, membershipDeposit + 1}
Roots == {0, 1}
Epochs == 0..(MaxTime \div epochLength)

\* rln.calculateExternalNullifier(epoch, appId) for the one application that
\* posts: a hash of the epoch, injective on the epochs
calculateExternalNullifier(epoch) == epoch + 1

\* the externalNullifier values callers submit, and the epoch each is built for
EpochNullifiers == {calculateExternalNullifier(e) : e \in Epochs}
EpochOf(extNullifier) == CHOOSE e \in Epochs : calculateExternalNullifier(e) = extNullifier

(***************************************************************************)
(* State of the contract.  A Solidity mapping is a total function whose    *)
(* unwritten entries read as zero / false / the empty array.               *)
(***************************************************************************)
VARIABLES
    identities,        \* mapping(uint256 => Identity)
    messages,          \* mapping(uint256 => Message): messageId i is messages[i + 1]
    epochMessages,     \* mapping(uint256 => uint256[])
    usedNullifiers,    \* mapping(uint256 => bool)
    nullifierToEpoch,  \* mapping(uint256 => uint256)
    identityCount,
    messageCount,
    merkleRoot,
    balance,           \* address(this).balance
    received,          \* what the contract has transferred to each account
    now,               \* block.timestamp
    events,            \* the MessagePosted and IdentitySlashed events emitted so far
    op,                \* the function of the last external call
    result,            \* its outcome: "ok" or the name of the revert
    \* --- SDK: one RLNIdentity in one epoch, and RLN.recoverSecret ---
    identitySecret,    \* RLNIdentity.secret, a decimal string
    externalNullifier, \* the externalNullifier argument of generateShare
    messageId,         \* the messageId argument of generateShare
    poseidonTable,     \* what the Poseidon hash answers on the inputs it is asked
    shares,            \* the shares generateShare has returned, per message slot
    recovered,         \* the last call of a recoverSecret: its arguments and outcome
    \* --- SDK: one MerkleTree ---
    leaves,            \* MerkleTree.leaves
    layers,            \* MerkleTree.layers; layers[1] is the same array as leaves
    lastProof,         \* the last getProof call: its index and what it returned
    \* --- SDK: one RLN instance ---
    rlnIdentities,     \* RLN.identities: the commitment of each entry, in order
    thrown,            \* the error the last SDK call threw, "" if it returned
    calls,             \* the registerIdentity calls begun on the instance, in
                       \* the order they began: where each one stands and the
                       \* index it returned
    generated,         \* the last generateProof call made on the instance: the
                       \* proof it returned, the share it computed and the
                       \* tree's getRoot()
    \* --- CLI ---
    messagesFile,      \* data/messages.json: the message records saved so far
    spamReport,        \* the last detect-spam run: the number of messages it
                       \* analyzed and its spamFound
    verification       \* the last rln.verifyProof call of the CLI: the index of
                       \* the message verified and what the call answered

ledgerVars == <<messages, messageCount, usedNullifiers, nullifierToEpoch, epochMessages>>
registryVars == <<identities, identityCount, balance, received>>
contractVars == <<identities, messages, epochMessages, usedNullifiers, nullifierToEpoch,
                  identityCount, messageCount, merkleRoot, balance, received, now, events,
                  op, result>>

shareVars == <<identitySecret, externalNullifier, messageId, poseidonTable, shares, recovered>>
treeVars == <<leaves, layers, lastProof>>
rlnVars == <<rlnIdentities, thrown, calls, generated>>
cliVars == <<messagesFile, spamReport, verification>>
sdkVars == <<shareVars, treeVars, rlnVars, cliVars>>

NoIdentity == [commitment |-> 0, deposit |-> 0, slashed |-> FALSE]

\* uint256, scaled down: checked arithmetic reverts (Panic) outside 0..UintMax
UintBits == 6
UintMax == 2^UintBits - 1

\* getCurrentEpoch(): block.timestamp / epochLength
getCurrentEpoch == now \div epochLength

\* getMessageLimit(); the variant admits a second message per epoch
getMessageLimit_Two == 1 + 1
getMessageLimit == 1

\* getEpochMessages(epoch)
getEpochMessages(epoch) == epochMessages[epoch]

\* isNullifierUsed(nullifier), and the first check of postMessage
isNullifierUsed_Never(nullifier) == FALSE
isNullifierUsed(nullifier) == usedNullifiers[nullifier]

\* the deposit check of registerIdentity
InsufficientDeposit_OffByOne(value) == value <= membershipDeposit
InsufficientDeposit(value) == value < membershipDeposit

\* findMessageByNullifier(nullifier): the first messageId holding it, -1 for the
\* revert "Message not found"
findMessageByNullifier(nullifier) ==
    LET hits == {i \in 0..(messageCount - 1) : messages[i + 1].nullifier = nullifier}
    IN  IF hits = {} THEN -1 ELSE CHOOSE i \in hits : \A j \in hits : i <= j

\* recoverSecret(x1, y1, x2, y2) of the contract, in checked uint256 arithmetic:
\* err is "" and value the quotient, or err names the revert
ContractRecoverSecret(x1, y1, x2, y2) ==
    IF x1 = x2 THEN [err |-> "Cannot recover secret from same x values", value |-> 0]
    ELSE IF y1 * x2 > UintMax \/ y2 * x1 > UintMax \/ y1 * x2 - y2 * x1 < 0
    THEN [err |-> "Panic", value |-> 0]
    ELSE IF x2 - x1 < 0
    THEN [err |-> "Panic", value |-> 0]
    ELSE [err |-> "", value |-> (y1 * x2 - y2 * x1) \div (x2 - x1)]

InitContract ==
    /\ identities = [c \in Commitments |-> NoIdentity]
    /\ messages = <<>>
    /\ epochMessages = [e \in Epochs |-> <<>>]
    /\ usedNullifiers = [n \in Nullifiers |-> FALSE]
    /\ nullifierToEpoch = [n \in Nullifiers |-> 0]
    /\ identityCount = 0
    /\ messageCount = 0
    /\ merkleRoot = 0
    /\ balance = 0
    /\ received = [a \in Accounts |-> 0]
    /\ now = 0
    /\ events = {}
    /\ op = "none"
    /\ result = "none"

\* the deposit registerIdentity records for a payment of value (deposit:
\* msg.value); the variant records more than was paid
RecordedDeposit_Inflated(value) == value + 1
RecordedDeposit(value) == value

\* registerIdentity(identityCommitment) payable
RegisterIdentity(sender, identityCommitment, value) ==
    /\ identityCount < MaxRegistrations
    /\ op' = "registerIdentity"
    /\ IF InsufficientDeposit(value)
       THEN /\ result' = "InsufficientDeposit"
            /\ UNCHANGED <<identities, identityCount, balance>>
       ELSE /\ result' = "ok"
            /\ identities' = [identities EXCEPT ![identityCommitment] =
                                [commitment |-> identityCommitment,
                                 deposit |-> RecordedDeposit(value),
                                 slashed |-> FALSE]]
            /\ identityCount' = identityCount + 1
            /\ balance' = balance + value
    /\ UNCHANGED <<ledgerVars, merkleRoot, received, now, events, sdkVars>>

\* postMessage(signalHash, nullifier, y, externalNullifier, a, b, c); verdict is
\* what verifier.verifyProof answers for this call's proof and public inputs
PostMessage(sender, signalHash, nullifier, y, extNullifier, verdict) ==
    /\ op' = "postMessage"
    /\ IF isNullifierUsed(nullifier)
       THEN /\ result' = "NullifierAlreadyUsed"
            /\ UNCHANGED <<ledgerVars, events>>
       ELSE IF Len(epochMessages[getCurrentEpoch]) >= getMessageLimit
       THEN /\ result' = "MessageLimitExceeded"
            /\ UNCHANGED <<ledgerVars, events>>
       ELSE IF ~verdict
       THEN /\ result' = "InvalidProof"
            /\ UNCHANGED <<ledgerVars, events>>
       ELSE /\ result' = "ok"
            /\ messageCount' = messageCount + 1
            /\ messages' = Append(messages,
                                  [signalHash |-> signalHash, nullifier |-> nullifier,
                                   y |-> y, timestamp |-> now, sender |-> sender])
            /\ usedNullifiers' = [usedNullifiers EXCEPT ![nullifier] = TRUE]
            /\ nullifierToEpoch' = [nullifierToEpoch EXCEPT ![nullifier] = getCurrentEpoch]
            /\ epochMessages' = [epochMessages EXCEPT ![getCurrentEpoch] =
                                    Append(@, nullifier)]
            /\ events' = events \cup {[name |-> "MessagePosted", id |-> messageCount,
                                       nullifier |-> nullifier, epoch |-> getCurrentEpoch]}
    /\ UNCHANGED <<registryVars, merkleRoot, now, sdkVars>>

\* slash without its comparison of the two recorded epochs
SlashChecks_NoEpochCheck(nullifier1, nullifier2, identityCommitment) ==
    LET epoch1 == nullifierToEpoch[nullifier1]
        epoch2 == nullifierToEpoch[nullifier2]
        messageId1 == findMessageByNullifier(nullifier1)
        messageId2 == findMessageByNullifier(nullifier2)
        msg1 == messages[messageId1 + 1]
        msg2 == messages[messageId2 + 1]
        rec == ContractRecoverSecret(msg1.signalHash, msg1.y, msg2.signalHash, msg2.y)
    IN  IF messageId1 = -1 \/ messageId2 = -1
        THEN [err |-> "Message not found", value |-> 0]
        ELSE IF msg1.signalHash = msg2.signalHash
        THEN [err |-> "NoSlashableOffense", value |-> 0]
        ELSE IF rec.err # ""
        THEN rec
        ELSE IF identities[identityCommitment].slashed
        THEN [err |-> "IdentityAlreadySlashed", value |-> 0]
        ELSE IF identities[identityCommitment].deposit > balance
        THEN [err |-> "TransferFailed", value |-> 0]
        ELSE [err |-> "", value |-> rec.value]

\* the outcome of slash(nullifier1, nullifier2, identityCommitment) up to the
\* transfer: err is "" when every check passes
SlashChecks(nullifier1, nullifier2, identityCommitment) ==
    LET epoch1 == nullifierToEpoch[nullifier1]
        epoch2 == nullifierToEpoch[nullifier2]
        messageId1 == findMessageByNullifier(nullifier1)
        messageId2 == findMessageByNullifier(nullifier2)
        msg1 == messages[messageId1 + 1]
        msg2 == messages[messageId2 + 1]
        rec == ContractRecoverSecret(msg1.signalHash, msg1.y, msg2.signalHash, msg2.y)
    IN  IF epoch1 # epoch2 \/ epoch1 = 0
        THEN [err |-> "NoSlashableOffense", value |-> 0]
        ELSE IF messageId1 = -1 \/ messageId2 = -1
        THEN [err |-> "Message not found", value |-> 0]
        ELSE IF msg1.signalHash = msg2.signalHash
        THEN [err |-> "NoSlashableOffense", value |-> 0]
        ELSE IF rec.err # ""
        THEN rec
        ELSE IF identities[identityCommitment].slashed
        THEN [err |-> "IdentityAlreadySlashed", value |-> 0]
        ELSE IF identities[identityCommitment].deposit > balance
        THEN [err |-> "TransferFailed", value |-> 0]
        ELSE [err |-> "", value |-> rec.value]

\* slash(nullifier1, nullifier2, identityCommitment)
Slash(sender, nullifier1, nullifier2, identityCommitment) ==
    LET out == SlashChecks(nullifier1, nullifier2, identityCommitment)
    IN  /\ op' = "slash"
        /\ IF out.err # ""
           THEN /\ result' = out.err
                /\ UNCHANGED <<identities, balance, received, events>>
           ELSE /\ result' = "ok"
                /\ identities' = [identities EXCEPT ![identityCommitment].slashed = TRUE]
                /\ balance' = balance - identities[identityCommitment].deposit
                /\ received' = [received EXCEPT ![sender] =
                                   @ + identities[identityCommitment].deposit]
                /\ events' = events \cup {[name |-> "IdentitySlashed",
                                           id |-> identityCommitment, nullifier |-> 0,
                                           epoch |-> out.value]}
        /\ UNCHANGED <<ledgerVars, identityCount, merkleRoot, now, sdkVars>>

\* updateRoot(newRoot)
UpdateRoot(sender, newRoot) ==
    /\ op' = "updateRoot"
    /\ result' = "ok"
    /\ merkleRoot' = newRoot
    /\ UNCHANGED <<registryVars, ledgerVars, now, events, sdkVars>>

\* the block timestamp moves on between transactions
Tick ==
    /\ now < MaxTime
    /\ now' = now + 1
    /\ UNCHANGED <<registryVars, ledgerVars, merkleRoot, events, op, result, sdkVars>>

NextContract ==
    \/ \E s \in Accounts, c \in Commitments, v \in Values : RegisterIdentity(s, c, v)
    \/ \E s \in Accounts, sh \in Shares, n \in Nullifiers, ext \in EpochNullifiers,
          v \in BOOLEAN :
          PostMessage(s, sh.x, n, sh.y, ext, v)
    \/ \E s \in Accounts, n1 \in Nullifiers, n2 \in Nullifiers, c \in Commitments :
          Slash(s, n1, n2, c)
    \/ \E s \in Accounts, r \in Roots : UpdateRoot(s, r)
    \/ Tick

vars == <<contractVars, shareVars, treeVars, rlnVars, cliVars>>

\* the parts of the state a specification leaves aside
IdleContract ==
    /\ identities = <<>> /\ messages = <<>> /\ epochMessages = <<>>
    /\ usedNullifiers = <<>> /\ nullifierToEpoch = <<>>
    /\ identityCount = 0 /\ messageCount = 0 /\ merkleRoot = 0 /\ balance = 0
    /\ received = <<>> /\ now = 0 /\ events = {} /\ op = "none" /\ result = "none"

IdleShares ==
    /\ identitySecret = <<>> /\ externalNullifier = 0 /\ messageId = 0
    /\ poseidonTable = <<>> /\ shares = <<>> /\ recovered = <<>>

NoProof == [index |-> -1, pathElements |-> <<>>, pathIndices |-> <<>>]
IdleTree == leaves = <<>> /\ layers = <<>> /\ lastProof = NoProof
NoGenerated == [err |-> "none", kind |-> "none", publicSignals |-> <<>>, index |-> -1,
                y |-> -1, nullifier |-> -1, root |-> -1]
IdleRln == rlnIdentities = <<>> /\ thrown = "" /\ calls = <<>> /\ generated = NoGenerated
NoSpamReport == [analyzed |-> 0, spamFound |-> FALSE]
NoVerification == [index |-> -1, isValid |-> FALSE, err |-> ""]
IdleCli == messagesFile = <<>> /\ spamReport = NoSpamReport /\ verification = NoVerification

Init == InitContract /\ IdleShares /\ IdleTree /\ IdleRln /\ IdleCli
Next == NextContract
Spec == Init /\ [][Next]_vars

(***************************************************************************)
(* Claims about the contract, checked under Spec.                          *)
(***************************************************************************)
Accepted(n) == \E e \in events : e.name = "MessagePosted" /\ e.nullifier = n

Recorded(n) == \E i \in 1..Len(messages) : messages[i].nullifier = n

\* C1: once a postMessage carrying nullifier n has been accepted, every later
\* postMessage carrying n (any verdict, any other arguments, any block time) is
\* rejected with NullifierAlreadyUsed and leaves messages, messageCount,
\* usedNullifiers, nullifierToEpoch and epochMessages unchanged.
C1_DuplicateNullifierRejected ==
    [][(op' = "postMessage" /\ ~(result' = "NullifierAlreadyUsed" /\ UNCHANGED ledgerVars)) =>
        \A n \in Nullifiers : Accepted(n) =>
            \A s \in Accounts, x \in SignalHashes, y \in Ys, ext \in EpochNullifiers,
               v \in BOOLEAN :
                ~PostMessage(s, x, n, y, ext, v)]_vars

\* C1 witness: a duplicate was rejected although the epoch of the accepted
\* message is over.
C1_Witness ==
    /\ op = "postMessage"
    /\ result = "NullifierAlreadyUsed"
    /\ \E e \in events : e.name = "MessagePosted" /\ e.epoch < getCurrentEpoch

\* C2 (as claimed): a postMessage with an unused nullifier and a false verdict is
\* rejected with InvalidProof in every reachable state, and changes no ledger
\* state.
C2_InvalidProofRejected ==
    [][op' = "postMessage" =>
        \A n \in Nullifiers : ~usedNullifiers[n] =>
            \A s \in Accounts, x \in SignalHashes, y \in Ys, ext \in EpochNullifiers :
                PostMessage(s, x, n, y, ext, FALSE) =>
                    (result' = "InvalidProof" /\ UNCHANGED ledgerVars)]_vars

\* C3 (as claimed): a postMessage with a true verdict and a nullifier without a
\* recorded entry is always accepted and records (signalHash, y) under that
\* nullifier.
C3_FreshValidProofAccepted ==
    [][op' = "postMessage" =>
        \A n \in Nullifiers : ~Recorded(n) =>
            \A s \in Accounts, x \in SignalHashes, y \in Ys, ext \in EpochNullifiers :
                PostMessage(s, x, n, y, ext, TRUE) =>
                    /\ result' = "ok"
                    /\ \E i \in 1..Len(messages') :
                          /\ messages'[i].nullifier = n
                          /\ messages'[i].signalHash = x
                          /\ messages'[i].y = y]_vars

\* C4 (as claimed): when an identity whose share (n, x1, y1) is recorded publishes
\* a second message with another signal hash under the same nullifier and a valid
\* proof, the contract then holds both shares, so that slash can use them.
C4_SecondShareAvailable ==
    [][op' = "postMessage" =>
        \A n \in Nullifiers, s \in Accounts, x \in SignalHashes, y \in Ys,
           ext \in EpochNullifiers :
            (/\ PostMessage(s, x, n, y, ext, TRUE)
             /\ \E i \in 1..Len(messages) :
                   messages[i].nullifier = n /\ messages[i].signalHash # x)
            => \E j \in 1..Len(messages') :
                  /\ messages'[j].nullifier = n
                  /\ messages'[j].signalHash = x
                  /\ messages'[j].y = y]_vars

\* No call of slash ever succeeds: every epoch holds at most one nullifier, so two
\* different nullifiers never share an epoch, and one nullifier names one message.
SlashNeverSucceeds ==
    /\ ~(op = "slash" /\ result = "ok")
    /\ \A c \in Commitments : ~identities[c].slashed

\* C9: registerIdentity with a value below membershipDeposit is rejected with
\* InsufficientDeposit and leaves identities, identityCount and the balance
\* unchanged; with at least membershipDeposit it records the commitment with that
\* deposit and slashed = FALSE.
C9_RegisterIdentityDeposit ==
    [][op' = "registerIdentity" =>
        \A s \in Accounts, c \in Commitments, v \in Values :
            RegisterIdentity(s, c, v) =>
                IF v < membershipDeposit
                THEN /\ result' = "InsufficientDeposit"
                     /\ UNCHANGED <<identities, identityCount, balance>>
                ELSE /\ result' = "ok"
                     /\ identities'[c] = [commitment |-> c, deposit |-> v,
                                          slashed |-> FALSE]
                     /\ balance' = balance + v]_vars

\* C9 witness: a registration was rejected for its deposit after another one was
\* accepted with a deposit above the minimum.
C9_Witness ==
    /\ op = "registerIdentity"
    /\ result = "InsufficientDeposit"
    /\ \E c \in Commitments :
          identities[c].commitment = c /\ identities[c].deposit > membershipDeposit

Registered(c) == identities[c].commitment = c

\* C11 (as claimed): a registration is created once and is immutable apart
\* from its slashed flag: no later operation changes the deposit of a
\* registered commitment or resets its slashed flag, and identityCount counts
\* each registered commitment once.
C11_RegistrationImmutable ==
    [][/\ \A c \in Commitments :
             Registered(c) => /\ identities'[c].deposit = identities[c].deposit
                              /\ identities[c].slashed => identities'[c].slashed
       /\ identityCount' = Cardinality({c \in Commitments : identities'[c].commitment = c})]_vars

\* C12 (as claimed): an accepted postMessage is recorded under the epoch its
\* externalNullifier was built for, not under the epoch of the block time at
\* submission.
C12_RecordedUnderShareEpoch ==
    [][op' = "postMessage" =>
        \A n \in Nullifiers, s \in Accounts, x \in SignalHashes, y \in Ys,
           ext \in EpochNullifiers :
            (PostMessage(s, x, n, y, ext, TRUE) /\ result' = "ok")
            => /\ nullifierToEpoch'[n] = EpochOf(ext)
               /\ \E k \in 1..Len(epochMessages'[EpochOf(ext)]) :
                     epochMessages'[EpochOf(ext)][k] = n]_vars

\* an accepted postMessage is recorded under the epoch of the block time
RecordedUnderClockEpoch ==
    [][op' = "postMessage" =>
        \A n \in Nullifiers, s \in Accounts, x \in SignalHashes, y \in Ys,
           ext \in EpochNullifiers :
            (PostMessage(s, x, n, y, ext, TRUE) /\ result' = "ok")
            => /\ nullifierToEpoch'[n] = getCurrentEpoch
               /\ epochMessages'[getCurrentEpoch] = <<n>>]_vars

\* in every state a nullifier is marked used exactly when its message is stored
UsedIffRecorded == \A n \in Nullifiers : usedNullifiers[n] <=> Recorded(n)

\* C17 (as claimed): of two postMessage calls that carry the same unused
\* nullifier and valid proofs, the one the chain runs first is accepted and
\* leaves the nullifier used together with its stored message, so that the
\* other is rejected as a duplicate: exactly one of the two is accepted.
C17_ExactlyOneOfTwoAccepted ==
    [][op' = "postMessage" =>
        \A n \in Nullifiers : ~usedNullifiers[n] =>
            \A s \in Accounts, x \in SignalHashes, y \in Ys, ext \in EpochNullifiers :
                PostMessage(s, x, n, y, ext, TRUE) =>
                    /\ result' = "ok"
                    /\ usedNullifiers'[n]
                    /\ \E i \in 1..Len(messages') : messages'[i].nullifier = n]_vars

\* C19: in every reachable state isNullifierUsed(n) is true exactly when an
\* earlier postMessage carrying n was accepted.
C19_UsedIffAccepted ==
    \A n \in Nullifiers : isNullifierUsed(n) <=> Accepted(n)

C19_Witness ==
    /\ op = "postMessage" /\ result \in {"InvalidProof", "MessageLimitExceeded"}
    /\ \E n \in Nullifiers : isNullifierUsed(n) /\ Accepted(n)
    /\ \E n \in Nullifiers : ~isNullifierUsed(n) /\ ~Accepted(n)

\* slash on two recorded nullifiers whose messages have the same signal hash
\* is rejected with NoSlashableOffense
SlashSameSignalRejected ==
    [][op' = "slash" =>
        \A s \in Accounts, n1 \in Nullifiers, n2 \in Nullifiers, c \in Commitments :
            (/\ Slash(s, n1, n2, c)
             /\ Recorded(n1) /\ Recorded(n2)
             /\ messages[findMessageByNullifier(n1) + 1].signalHash =
                messages[findMessageByNullifier(n2) + 1].signalHash)
            => result' = "NoSlashableOffense"]_vars

(***************************************************************************)
(* The prime field of the SDK (poseidon.F): the BN254 scalar field in the  *)
(* source, here the least prime that is at least MinFieldSize.  A field    *)
(* element is its canonical residue 0..P-1.                                *)
(***************************************************************************)
MinFieldSize == 11

IsPrime(n) == n > 1 /\ \A d \in 2..(n - 1) : n % d # 0

P == CHOOSE p \in MinFieldSize..(2 * MinFieldSize) :
        IsPrime(p) /\ \A q \in MinFieldSize..(p - 1) : ~IsPrime(q)

F == 0..(P - 1)

\* F.e(v): the field element of an integer
FE(v) == v % P

FAdd(a, b) == (a + b) % P
FSub(a, b) == ((a - b) + P) % P
FMul(a, b) == (a * b) % P

\* the multiplicative inverse of b # 0
FInv(b) == CHOOSE c \in F : (b * c) % P = 1

\* F.div(a, b), as the set of its possible outcomes: the library is not part of
\* the repository, and on b = 0 it either throws or answers 0
FDiv(a, b) ==
    IF b = 0
    THEN {[err |-> "Zero has no inverse", value |-> 0], [err |-> "", value |-> 0]}
    ELSE {[err |-> "", value |-> FMul(a, FInv(b))]}

\* BigInt.toString(): the decimal digits of a non-negative integer
RECURSIVE toString(_)
toString(n) == IF n < 10 THEN <<n>> ELSE Append(toString(n \div 10), n % 10)

\* the integer a decimal string denotes, as F.e and poseidon read a string
RECURSIVE ParseInt(_)
ParseInt(str) ==
    IF Len(str) = 0 THEN 0
    ELSE 10 * ParseInt(SubSeq(str, 1, Len(str) - 1)) + str[Len(str)]

\* poseidon(inputs), reduced to a canonical field element by F.toObject
Poseidon(inputs) == poseidonTable[inputs]

(***************************************************************************)
(* RLNIdentity.generateShare                                               *)
(***************************************************************************)
\* y = a1 * signalHash + identitySecret
ShareY_IgnoresSignal(a1, signalHash, secret) == FAdd(FE(a1), FE(ParseInt(secret)))
ShareY(a1, signalHash, secret) ==
    FAdd(FMul(FE(a1), FE(signalHash)), FE(ParseInt(secret)))

generateShare(secret, extNullifier, signalHash, msgId) ==
    LET a1 == Poseidon(<<FE(ParseInt(secret)), extNullifier>>)
        nullifier == Poseidon(<<a1, msgId>>)
        y == ShareY(a1, signalHash, secret)
    IN  [a1 |-> toString(a1), nullifier |-> toString(nullifier), y |-> toString(y)]

(***************************************************************************)
(* RLN.recoverSecret of the SDK, as the set of its possible outcomes: err  *)
(* is "" and value the returned string, or err is the error thrown.        *)
(***************************************************************************)
SdkRecoverSecret_SwappedNumerator(share1, share2) ==
    IF share1.x = share2.x
    THEN {[err |-> "Cannot recover secret from same x values", value |-> <<>>]}
    ELSE LET numerator == FSub(FMul(share1.y, share1.x), FMul(share2.y, share2.x))
             denominator == FSub(share2.x, share1.x)
         IN  {[err |-> o.err, value |-> IF o.err = "" THEN toString(o.value) ELSE <<>>] :
                 o \in FDiv(numerator, denominator)}

SdkRecoverSecret(share1, share2) ==
    IF share1.x = share2.x
    THEN {[err |-> "Cannot recover secret from same x values", value |-> <<>>]}
    ELSE LET numerator == FSub(FMul(share1.y, share2.x), FMul(share2.y, share1.x))
             denominator == FSub(share2.x, share1.x)
         IN  {[err |-> o.err, value |-> IF o.err = "" THEN toString(o.value) ELSE <<>>] :
                 o \in FDiv(numerator, denominator)}

(***************************************************************************)
(* SpecShare: one identity posts in one epoch.  The identity secret, the   *)
(* external nullifier, the message id and the two hash values that         *)
(* generateShare asks for are arbitrary; generateShare fills the message   *)
(* slots, and recoverSecret is applied to two published shares.            *)
(***************************************************************************)
ExternalNullifiers == {1}
MessageIds == {0, 1}
Slots == {1, 2}

\* the values the two hashes of generateShare are drawn from: the slope a1
\* enters the share, the nullifier hash enters no arithmetic
SlopeHashes == {0, 1, 2, P - 1}
NullifierHashes == {0, P - 1}

NoShare == [x |-> -1, a1 |-> <<>>, nullifier |-> <<>>, y |-> <<>>]
\* the last recovery: who ran it, the error thrown ("" for none), the string
\* the SDK returned, the uint the contract returned
NoRecovery == [by |-> "none", err |-> "none", value |-> <<>>, number |-> 0]

InitShare ==
    /\ identitySecret \in {toString(v) : v \in F}
    /\ externalNullifier \in ExternalNullifiers
    /\ messageId \in MessageIds
    /\ \E a1 \in SlopeHashes : \E n \in NullifierHashes \cup {a1} :
          LET q1 == <<FE(ParseInt(identitySecret)), externalNullifier>>
              q2 == <<a1, messageId>>
          IN  /\ q1 = q2 => n = a1
              /\ poseidonTable = [q \in {q1, q2} |-> IF q = q1 THEN a1 ELSE n]
    /\ shares = [k \in Slots |-> NoShare]
    /\ recovered = NoRecovery
    /\ IdleContract
    /\ IdleTree
    /\ IdleRln
    /\ IdleCli

\* identity.generateShare(externalNullifier, signalHash, messageId) for the
\* message of slot k
GenerateShare(k, signalHash) ==
    /\ shares' = [shares EXCEPT ![k] =
          [x |-> signalHash] @@
          generateShare(identitySecret, externalNullifier, signalHash, messageId)]
    /\ UNCHANGED <<identitySecret, externalNullifier, messageId, poseidonTable, recovered,
                   contractVars, treeVars, rlnVars, cliVars>>

\* the point (x, y) an observer reads off a published share
PointOf(share) == [x |-> share.x, y |-> FE(ParseInt(share.y))]

\* rln.recoverSecret(share_i, share_j) on two published shares
RecoverFromShares(i, j) ==
    /\ shares[i] # NoShare /\ shares[j] # NoShare
    /\ \E o \in SdkRecoverSecret(PointOf(shares[i]), PointOf(shares[j])) :
          recovered' = [by |-> "sdk", err |-> o.err, value |-> o.value, number |-> 0]
    /\ UNCHANGED <<identitySecret, externalNullifier, messageId, poseidonTable, shares,
                   contractVars, treeVars, rlnVars, cliVars>>

NextShare ==
    \/ \E k \in Slots, x \in F : GenerateShare(k, x)
    \/ \E i \in Slots, j \in Slots : RecoverFromShares(i, j)

SpecShare == InitShare /\ [][NextShare]_vars

(* Claims about generateShare and the SDK's recoverSecret, checked under SpecShare. *)

Published(k) == shares[k] # NoShare

\* C5: recoverSecret of the SDK, applied to two shares that generateShare made
\* for one secret and one slope at two different field elements x, returns
\* exactly the secret, whichever share comes first.
C5_RecoverReturnsSecret ==
    [][(UNCHANGED shares /\ ~(recovered'.err = "" /\ recovered'.value = identitySecret))
          => \A i \in Slots, j \in Slots :
                shares[i].x # shares[j].x => ~RecoverFromShares(i, j)]_vars

C5_Witness ==
    /\ Published(1) /\ Published(2)
    /\ shares[1].x # shares[2].x
    /\ shares[1].y # shares[2].y
    /\ Len(identitySecret) = 2
    /\ recovered.by = "sdk" /\ recovered.err = "" /\ recovered.value = identitySecret

RawXs == 0..(P + 1)

InitRecover ==
    /\ shares \in [Slots -> [x : RawXs, y : F]]
    /\ recovered = NoRecovery
    /\ identitySecret = <<>> /\ externalNullifier = 0 /\ messageId = 0
    /\ poseidonTable = <<>>
    /\ IdleContract
    /\ IdleTree
    /\ IdleRln
    /\ IdleCli

\* rln.recoverSecret(share_i, share_j) of the SDK
SdkRecover(i, j) ==
    /\ \E o \in SdkRecoverSecret(shares[i], shares[j]) :
          recovered' = [by |-> "sdk", err |-> o.err, value |-> o.value, number |-> 0]
    /\ UNCHANGED <<identitySecret, externalNullifier, messageId, poseidonTable, shares,
                   contractVars, treeVars, rlnVars, cliVars>>

\* recoverSecret(x_i, y_i, x_j, y_j) of the contract
ContractRecover(i, j) ==
    /\ LET o == ContractRecoverSecret(shares[i].x, shares[i].y, shares[j].x, shares[j].y)
       IN  recovered' = [by |-> "contract", err |-> o.err, value |-> <<>>, number |-> o.value]
    /\ UNCHANGED <<identitySecret, externalNullifier, messageId, poseidonTable, shares,
                   contractVars, treeVars, rlnVars, cliVars>>

NextRecover ==
    \/ \E i \in Slots, j \in Slots : SdkRecover(i, j)
    \/ \E i \in Slots, j \in Slots : ContractRecover(i, j)

SpecRecover == InitRecover /\ [][NextRecover]_vars

\* C6 (as claimed): recoverSecret of the SDK and of the contract, on two shares
\* whose x values are equal as field elements, fails with an error and returns
\* no secret.
C6_EqualXNeverRecovers ==
    [][\A i \in Slots, j \in Slots :
          ((SdkRecover(i, j) \/ ContractRecover(i, j)) /\ FE(shares[i].x) = FE(shares[j].x))
          => recovered'.err # ""]_vars

\* recovery applied to equal x values of equal representation is refused
SameXRefused ==
    [][\A i \in Slots, j \in Slots :
          ((SdkRecover(i, j) \/ ContractRecover(i, j)) /\ shares[i].x = shares[j].x)
          => recovered'.err = "Cannot recover secret from same x values"]_vars

\* the points (x1, y1), (x2, y2) lie on the integer line y = a1 * x + a0, at
\* different x, and the products recoverSecret forms fit in a uint
OnIntegerLine(a0, a1, x1, y1, x2, y2) ==
    /\ x1 # x2
    /\ y1 = a1 * x1 + a0
    /\ y2 = a1 * x2 + a0
    /\ y1 * x2 <= UintMax /\ y2 * x1 <= UintMax

\* C18 (as claimed): for non-negative integers a0, a1 and x1 # x2 whose products
\* fit in a uint, the contract's recoverSecret on the two points of the line
\* y = a1 * x + a0 returns a0, whichever point has the larger x.
C18_ContractRecoversIntercept ==
    [][\A i \in Slots, j \in Slots : ContractRecover(i, j) =>
          \A a0 \in F, a1 \in F :
              OnIntegerLine(a0, a1, shares[i].x, shares[i].y, shares[j].x, shares[j].y)
              => (recovered'.err = "" /\ recovered'.number = a0)]_vars

\* with the smaller x first, the contract's recoverSecret returns a0
AscendingRecoversIntercept ==
    [][\A i \in Slots, j \in Slots : (ContractRecover(i, j) /\ shares[i].x < shares[j].x) =>
          \A a0 \in F, a1 \in F :
              OnIntegerLine(a0, a1, shares[i].x, shares[i].y, shares[j].x, shares[j].y)
              => (recovered'.err = "" /\ recovered'.number = a0)]_vars

\* with the larger x first, the contract's recoverSecret reverts
DescendingPanics ==
    [][\A i \in Slots, j \in Slots : (ContractRecover(i, j) /\ shares[i].x > shares[j].x) =>
          \A a0 \in F, a1 \in F :
              OnIntegerLine(a0, a1, shares[i].x, shares[i].y, shares[j].x, shares[j].y)
              => recovered'.err = "Panic"]_vars

(***************************************************************************)
(* MerkleTree of the SDK.  layers is the array of arrays of the source:    *)
(* layers[level + 1] here is this.layers[level] there, and layers[1] is    *)
(* the very array this.leaves names.  The hasher is an injective pairing   *)
(* of two values that never answers the zero value.                        *)
(***************************************************************************)
MaxLeaves == 5

\* this.levels, the merkleTreeHeight of the RLN instance (20 by default)
TreeLevels == 3

zero_value == 0

LeafValues == {1, 2, 3}

hasher(left, right) == ((left + right) * (left + right + 1)) \div 2 + right + 1

RECURSIVE zero_values(_)
zero_values(i) ==
    IF i = 0 THEN zero_value ELSE hasher(zero_values(i - 1), zero_values(i - 1))

\* the nextLevel array one pass of the loop of buildTree computes
NextLevel(currentLevel, level) ==
    IF Len(currentLevel) = 0
    THEN <<zero_values(level + 1)>>
    ELSE [k \in 1..((Len(currentLevel) + 1) \div 2) |->
            hasher(currentLevel[2 * k - 1],
                   IF 2 * k <= Len(currentLevel) THEN currentLevel[2 * k]
                   ELSE zero_values(level))]

\* buildTree from loop index level on: each pass reads this.layers[level] and
\* pushes the next level at the end of this.layers
RECURSIVE buildTree(_, _)
buildTree(ls, level) ==
    IF level >= TreeLevels - 1 THEN ls
    ELSE buildTree(Append(ls, NextLevel(ls[level + 1], level)), level + 1)

getRoot == layers[TreeLevels][1]

\* the leaves a tree of this.levels layers has room for: getProof walks
\* levels - 1 layers below the root
TreeCapacity == 2^(TreeLevels - 1)

\* getProof from loop index level on, as the sequence of (sibling, position)
RECURSIVE ProofFrom(_, _)
ProofFrom(level, index) ==
    IF level >= TreeLevels - 1 THEN <<>>
    ELSE LET position == index % 2
             levelIndex == index \div 2
             currentLevel == layers[level + 1]
             siblingIndex == IF position = 0 THEN levelIndex * 2 + 1 ELSE levelIndex * 2
             element == IF siblingIndex < Len(currentLevel)
                        THEN currentLevel[siblingIndex + 1]
                        ELSE zero_values(level)
         IN  <<[element |-> element, position |-> position]>> \o
             ProofFrom(level + 1, index \div 2)

getProof(index) ==
    LET steps == ProofFrom(0, index)
    IN  [pathElements |-> [k \in 1..Len(steps) |-> steps[k].element],
         pathIndices |-> [k \in 1..Len(steps) |-> steps[k].position]]

\* the root a verifier derives from a leaf and its proof, from step k on
RECURSIVE Fold(_, _, _)
Fold(cur, proof, k) ==
    IF k > Len(proof.pathElements) THEN cur
    ELSE Fold(IF proof.pathIndices[k] = 0
              THEN hasher(cur, proof.pathElements[k])
              ELSE hasher(proof.pathElements[k], cur),
              proof, k + 1)

\* new MerkleTree(levels, zero_value, leaves, hasher)
InitTree ==
    /\ \E n \in 0..MaxLeaves : leaves \in [1..n -> LeafValues]
    /\ layers = buildTree(<<leaves>>, 0)
    /\ lastProof = NoProof
    /\ IdleContract
    /\ IdleShares
    /\ IdleRln
    /\ IdleCli

\* tree.insert(leaf)
Insert(leaf) ==
    /\ Len(leaves) < MaxLeaves
    /\ leaves' = Append(leaves, leaf)
    /\ layers' = buildTree([layers EXCEPT ![1] = Append(leaves, leaf)], 0)
    /\ thrown' = ""
    /\ UNCHANGED <<lastProof, contractVars, shareVars, rlnIdentities, calls, generated, cliVars>>

\* the indices getProof is called with: those of the leaves and some beyond
ProofIndices == 0..(MaxLeaves + 1)

\* tree.getProof(index): it has no throw statement, and reading an array
\* past its end answers undefined, which the length comparison turns into
\* the zero value
GetProof(index) ==
    /\ lastProof' = [index |-> index,
                     pathElements |-> getProof(index).pathElements,
                     pathIndices |-> getProof(index).pathIndices]
    /\ thrown' = ""
    /\ UNCHANGED <<leaves, layers, contractVars, shareVars, rlnIdentities, calls, generated, cliVars>>

NextTree ==
    \/ \E leaf \in LeafValues : Insert(leaf)
    \/ \E index \in ProofIndices : GetProof(index)

SpecTree == InitTree /\ [][NextTree]_vars

(* Claims about the MerkleTree, checked under SpecTree. *)

RoundTrip == \A i \in 0..(Len(leaves) - 1) : Fold(leaves[i + 1], getProof(i), 1) = getRoot

\* C7 (as claimed): after any sequence of insert calls, folding an inserted
\* leaf with the path elements of its proof, in the order its path indices
\* give, yields getRoot().
C7_ProofFoldsToRoot ==
    Len(layers) > TreeLevels => RoundTrip

\* a tree as its constructor built it, before any insert and within its
\* capacity, has the round trip
ConstructedTreeRoundTrip ==
    (Len(layers) = TreeLevels /\ Len(leaves) <= TreeCapacity) => RoundTrip

\* insert leaves getRoot() at the root its constructor computed
RootNeverChanges == [][getRoot' = getRoot]_vars

\* C13 (as claimed): an insert into a tree that already holds as many leaves
\* as it has room for fails with a capacity error and leaves the tree
\* unchanged.
C13_OverflowInsertRejected ==
    [][\A leaf \in LeafValues :
          (Len(leaves) >= TreeCapacity /\ Insert(leaf))
          => (thrown' # "" /\ UNCHANGED treeVars)]_vars

\* insert never throws and always appends the leaf
InsertAlwaysAppends ==
    [][\A leaf \in LeafValues :
          Insert(leaf) => (thrown' = "" /\ leaves' = Append(leaves, leaf))]_vars

(***************************************************************************)
(* SpecRln: one RLN instance of the SDK.  Its tree is null (layers = <<>>) *)
(* until init() has run.                                                   *)
(***************************************************************************)
TreeIsNull == layers = <<>>

\* new RLN(options)
InitRln ==
    /\ rlnIdentities = <<>>
    /\ thrown = ""
    /\ calls = <<>>
    /\ generated = NoGenerated
    /\ leaves = <<>>
    /\ layers = <<>>
    /\ lastProof = NoProof
    /\ IdleContract
    /\ IdleShares
    /\ IdleCli

\* rln.init(): a new, empty MerkleTree replaces this.tree
RlnInit ==
    /\ leaves' = <<>>
    /\ layers' = buildTree(<<(<<>>)>>, 0)
    /\ thrown' = ""
    /\ UNCHANGED <<lastProof, rlnIdentities, calls, generated, contractVars, shareVars, cliVars>>

\* rln.registerIdentity(identity), for an identity of the given commitment:
\* the entry is pushed to this.identities, then this.tree.insert is called
SdkRegisterIdentity(commitment) ==
    /\ Len(rlnIdentities) < MaxLeaves
    /\ rlnIdentities' = Append(rlnIdentities, commitment)
    /\ IF TreeIsNull
       THEN /\ thrown' = "TypeError"
            /\ UNCHANGED treeVars
       ELSE /\ thrown' = ""
            /\ leaves' = Append(leaves, commitment)
            /\ layers' = buildTree([layers EXCEPT ![1] = Append(leaves, commitment)], 0)
            /\ UNCHANGED lastProof
    /\ UNCHANGED <<calls, generated, contractVars, shareVars, cliVars>>

NextRln ==
    \/ RlnInit
    \/ \E c \in LeafValues : SdkRegisterIdentity(c)

SpecRln == InitRln /\ [][NextRln]_vars

(***************************************************************************)
(* SpecRlnAsync: registerIdentity calls on one RLN instance interleaved at *)
(* their await.  A call suspends once, in `await identity.getCommitment()`,*)
(* which touches no state of the instance; what follows the await runs to  *)
(* the return without another suspension.                                  *)
(***************************************************************************)
MaxCalls == 3

\* rln.registerIdentity(identity) is called and suspends in its await;
\* initialised notes whether init() had run when the call was made
BeginRegister(commitment) ==
    /\ Len(calls) < MaxCalls
    /\ calls' = Append(calls, [commitment |-> commitment, at |-> "await", index |-> -1,
                               initialised |-> ~TreeIsNull])
    /\ UNCHANGED <<rlnIdentities, thrown, generated, treeVars, contractVars, shareVars, cliVars>>

\* the k-th call resumes after its await: it reads this.identities.length,
\* pushes its entry, calls this.tree.insert and returns the index
ResumeRegister(k) ==
    /\ k \in 1..Len(calls)
    /\ calls[k].at = "await"
    /\ rlnIdentities' = Append(rlnIdentities, calls[k].commitment)
    /\ IF TreeIsNull
       THEN /\ thrown' = "TypeError"
            /\ calls' = [calls EXCEPT ![k].at = "thrown"]
            /\ UNCHANGED treeVars
       ELSE /\ thrown' = ""
            /\ calls' = [calls EXCEPT ![k].at = "returned", ![k].index = Len(rlnIdentities)]
            /\ leaves' = Append(leaves, calls[k].commitment)
            /\ layers' = buildTree([layers EXCEPT ![1] = Append(leaves, calls[k].commitment)], 0)
            /\ UNCHANGED lastProof
    /\ UNCHANGED <<generated, contractVars, shareVars, cliVars>>

NextRlnAsync ==
    \/ RlnInit
    \/ \E c \in LeafValues : BeginRegister(c)
    \/ \E k \in 1..MaxCalls : ResumeRegister(k)

SpecRlnAsync == InitRln /\ [][NextRlnAsync]_vars

\* C16 (as claimed): every mutating operation is all-or-nothing: when a call
\* of the SDK fails with an error, the identity list and the tree are as they
\* were before the call.
C16_FailedCallChangesNothing ==
    [][\A c \in LeafValues :
          (SdkRegisterIdentity(c) /\ thrown' # "")
          => UNCHANGED <<rlnIdentities, leaves, layers>>]_vars

\* a contract call that reverts changes no contract storage and emits nothing
RevertChangesNothing ==
    [][(op' # "none" /\ result' # "ok")
          => UNCHANGED <<registryVars, ledgerVars, merkleRoot, events>>]_vars

(***************************************************************************)
(* The CLI (cli/demo.js) on top of the SDK's proof generation.             *)
(*                                                                         *)
(* Here Poseidon is an injective stand-in built from the pairing hasher,   *)
(* and the share is computed in the integers: the values stay far below    *)
(* the modulus of the field, where the field's arithmetic is the integers'.*)
(***************************************************************************)
MaxPosts == 2

\* poseidon(inputs) for one, two and three inputs
PoseidonHash(inputs) ==
    IF Len(inputs) = 1 THEN hasher(inputs[1], 0)
    ELSE IF Len(inputs) = 2 THEN hasher(inputs[1], inputs[2])
    ELSE hasher(inputs[1], hasher(inputs[2], inputs[3]))

\* the identities data/identities.json holds after setup, by index, and the
\* secret of each
CliIdentities == {0, 1}
SecretOf(index) == index + 1

\* RLNIdentity.getCommitment()
getCommitment(secret) == PoseidonHash(<<secret>>)

\* message texts, as their arrays of 31-byte chunks
Texts == {<<1>>, <<2>>, <<1, 2>>}

\* the epochs a post is made in (the --epoch option or the current epoch)
CliEpochs == {1, 2}

\* what the build directory and the prover make of a generateProof call: a
\* Groth16 proof, the mock proof (no zkey file), or an error
ProverOutcomes == {"groth16", "mock", "error"}

\* the signal hash generateProof computes: only the first chunk is hashed
SignalHashOf(text) == PoseidonHash(<<text[1]>>)

\* identity.generateShare(externalNullifier, signalHash, messageId)
ShareOf(secret, extNullifier, signalHash, msgId) ==
    LET a1 == PoseidonHash(<<secret, extNullifier>>)
    IN  [a1 |-> a1,
         nullifier |-> PoseidonHash(<<a1, msgId>>),
         y |-> a1 * signalHash + secret]

\* the tree one more insert makes of the layers ls
LayersAfterInsert(ls, leaf) == buildTree([ls EXCEPT ![1] = Append(ls[1], leaf)], 0)

\* this.tree.layers after rln.init() and registerIdentity of the identities
\* 0 .. n - 1
RECURSIVE RegisteredLayers(_)
RegisteredLayers(n) ==
    IF n = 0 THEN buildTree(<<(<<>>)>>, 0)
    ELSE LayersAfterInsert(RegisteredLayers(n - 1), getCommitment(SecretOf(n - 1)))

\* the Merkle proof generateProof hands to the circuit: getProof(index),
\* padded with zero values to merkleTreeHeight elements
PaddedProof(proof) ==
    [pathElements |-> proof.pathElements \o
                      [k \in 1..(TreeLevels - Len(proof.pathElements)) |->
                          zero_values(Len(proof.pathElements) + k - 1)],
     pathIndices |-> proof.pathIndices \o
                     [k \in 1..(TreeLevels - Len(proof.pathIndices)) |-> 0]]

\* the userMessageLimit generateProof puts in every witness, and the
\* LIMIT_BIT_SIZE of the main component RLN(20, 16)
userMessageLimit == 1
LIMIT_BIT_SIZE == 16

\* the constraints of the circuit's RangeCheck: messageId fits in
\* LIMIT_BIT_SIZE bits and is less than the limit
RangeCheck(msgId, limit) == msgId < 2^LIMIT_BIT_SIZE /\ msgId < limit

\* a witness has a Groth16 proof only if it satisfies the circuit; the
\* fallback and the errors are the prover library's and the build's
Provable(outcome, msgId) == outcome = "groth16" => RangeCheck(msgId, userMessageLimit)

\* the outputs of the circuit RLN(DEPTH, LIMIT_BIT_SIZE) on the witness
CircuitOutputs(secret, extNullifier, signalHash, msgId, merkleProof) ==
    LET identityCommitment == PoseidonHash(<<secret>>)
        rateCommitment == PoseidonHash(<<identityCommitment, userMessageLimit>>)
        a1 == PoseidonHash(<<secret, extNullifier, msgId>>)
    IN  [y |-> secret + a1 * signalHash,
         root |-> Fold(rateCommitment, merkleProof, 1),
         nullifier |-> PoseidonHash(<<a1>>)]

\* the publicSignals of the proof generateProof returns: on the prover's
\* path the circuit's outputs, then its public inputs; on the fallback path
\* what generateMockProof lists
ProofSignals(outcome, secret, extNullifier, signalHash, msgId, merkleProof, treeRoot) ==
    IF outcome = "groth16"
    THEN LET out == CircuitOutputs(secret, extNullifier, signalHash, msgId, merkleProof)
         IN  <<out.y, out.root, out.nullifier, signalHash, extNullifier>>
    ELSE LET share == ShareOf(secret, extNullifier, signalHash, msgId)
         IN  <<signalHash, extNullifier, share.y, share.nullifier, treeRoot>>

\* the proof object generateMockProof builds is the one whose pi_a[0] is
\* "12345"
IsMockProof(proof) == proof = "mock"

\* rln.verifyProof(proof): vkeyExists is whether the verification key file
\* exists, verdict what snarkjs.groth16.verify answers for this proof and
\* its public signals
verifyProof(proof, vkeyExists, verdict) ==
    IF IsMockProof(proof) THEN [err |-> "", isValid |-> TRUE]
    ELSE IF ~vkeyExists THEN [err |-> "Verification key not found", isValid |-> FALSE]
    ELSE [err |-> "", isValid |-> verdict]

\* RLNProof.getPublicSignals()
getPublicSignals(publicSignals) ==
    [externalNullifier |-> publicSignals[1],
     y |-> publicSignals[2],
     nullifier |-> publicSignals[3],
     root |-> publicSignals[4],
     signalHash |-> publicSignals[5]]

\* Date.now() of a post-message run: later than the id of every saved message
DateNow == Len(messagesFile) + 1

\* no messages file yet; setup has written the identities file
InitCli ==
    /\ messagesFile = <<>>
    /\ spamReport = NoSpamReport
    /\ verification = NoVerification
    /\ IdleRln
    /\ IdleTree
    /\ IdleContract
    /\ IdleShares

\* rln-demo post-message -i index -m text [-e epoch]: a new RLN instance is
\* initialized, every identity of the file is registered, the proof is
\* generated and verified, and the message record is saved whatever the
\* verification answered; an error of either call ends the run
CliPostMessage(index, text, epoch, outcome, vkeyExists, verdict) ==
    /\ Len(messagesFile) < MaxPosts
    /\ rlnIdentities' = [k \in 1..Cardinality(CliIdentities) |-> getCommitment(SecretOf(k - 1))]
    /\ layers' = RegisteredLayers(Cardinality(CliIdentities))
    /\ leaves' = layers'[1]
    /\ lastProof' = [index |-> index,
                     pathElements |-> getProof(index)'.pathElements,
                     pathIndices |-> getProof(index)'.pathIndices]
    /\ LET extNullifier == calculateExternalNullifier(epoch)
           msgId == DateNow
           signals == ProofSignals(outcome, SecretOf(index), extNullifier, SignalHashOf(text),
                                   msgId, PaddedProof(getProof(index)'), getRoot')
           checked == verifyProof(outcome, vkeyExists, verdict)
       IN  IF outcome = "error" \/ ~Provable(outcome, msgId)
           THEN /\ thrown' = "Failed to generate proof"
                /\ UNCHANGED <<messagesFile, verification>>
           ELSE IF checked.err # ""
           THEN /\ thrown' = "Failed to generate proof"
                /\ verification' = [index |-> Len(messagesFile), isValid |-> FALSE,
                                    err |-> checked.err]
                /\ UNCHANGED messagesFile
           ELSE /\ thrown' = ""
                /\ verification' = [index |-> Len(messagesFile), isValid |-> checked.isValid,
                                    err |-> ""]
                /\ messagesFile' = Append(messagesFile,
                      [id |-> msgId, identityIndex |-> index, text |-> text, epoch |-> epoch,
                       externalNullifier |-> extNullifier, proof |-> outcome,
                       publicSignals |-> signals])
    /\ UNCHANGED <<spamReport, calls, generated, contractVars, shareVars>>

\* rln-demo detect-spam: spam is reported when two messages of one epoch have
\* the same publicSignals[2]
DetectSpam ==
    /\ spamReport' =
          [analyzed |-> Len(messagesFile),
           spamFound |-> \E i \in 1..Len(messagesFile), j \in 1..Len(messagesFile) :
                            /\ i < j
                            /\ messagesFile[i].epoch = messagesFile[j].epoch
                            /\ messagesFile[i].publicSignals[3] = messagesFile[j].publicSignals[3]]
    /\ UNCHANGED <<messagesFile, verification, rlnVars, treeVars, contractVars, shareVars>>

\* rln-demo verify-message -i index: a new RLN instance is initialized and
\* rln.verifyProof is applied to the saved proof and public signals
VerifyMessage(index, vkeyExists, verdict) ==
    /\ index < Len(messagesFile)
    /\ rlnIdentities' = <<>>
    /\ leaves' = <<>>
    /\ layers' = buildTree(<<(<<>>)>>, 0)
    /\ lastProof' = NoProof
    /\ LET checked == verifyProof(messagesFile[index + 1].proof, vkeyExists, verdict)
       IN  /\ verification' = [index |-> index, isValid |-> checked.isValid,
                               err |-> checked.err]
           /\ thrown' = ""
    /\ UNCHANGED <<messagesFile, spamReport, calls, generated, contractVars, shareVars>>

NextCli ==
    \/ \E i \in CliIdentities, t \in Texts, e \in CliEpochs, o \in ProverOutcomes,
          k \in BOOLEAN, v \in BOOLEAN :
          CliPostMessage(i, t, e, o, k, v)
    \/ DetectSpam
    \/ \E i \in 0..(MaxPosts - 1), k \in BOOLEAN, v \in BOOLEAN : VerifyMessage(i, k, v)

SpecCli == InitCli /\ [][NextCli]_vars

(***************************************************************************)
(* SpecProof: generateProof called on one RLN instance, as the tests call  *)
(* it, with a message id the caller chooses.  Identities are registered by *)
(* their secrets.                                                          *)
(***************************************************************************)
MaxProofIdentities == 2

Secrets == {SecretOf(i) : i \in CliIdentities}

\* the secret of the identity whose commitment is c
SecretFor(c) == CHOOSE secret \in Secrets : getCommitment(secret) = c

\* the externalNullifier arguments of generateProof
ProofExternalNullifiers == {calculateExternalNullifier(e) : e \in CliEpochs}

\* the index arguments of generateProof
ProofIdentityIndices == 0..MaxProofIdentities

\* rln.generateProof(identityIndex, signal, externalNullifier, messageId)
SdkGenerateProof(index, text, extNullifier, msgId, outcome) ==
    /\ IF TreeIsNull
       THEN leaves' = <<>> /\ layers' = buildTree(<<(<<>>)>>, 0)
       ELSE UNCHANGED <<leaves, layers>>
    /\ IF index >= Len(rlnIdentities)
       THEN /\ thrown' = "Identity not found"
            /\ generated' = [NoGenerated EXCEPT !.err = "Identity not found", !.index = index]
            /\ UNCHANGED lastProof
       ELSE LET secret == SecretFor(rlnIdentities[index + 1])
                signalHash == SignalHashOf(text)
                share == ShareOf(secret, extNullifier, signalHash, msgId)
                signals == ProofSignals(outcome, secret, extNullifier, signalHash, msgId,
                                        PaddedProof(getProof(index)'), getRoot')
            IN  /\ lastProof' = [index |-> index,
                                 pathElements |-> getProof(index)'.pathElements,
                                 pathIndices |-> getProof(index)'.pathIndices]
                /\ IF outcome = "error" \/ ~Provable(outcome, msgId)
                   THEN /\ thrown' = "fullProve"
                        /\ generated' = [NoGenerated EXCEPT !.err = "fullProve", !.index = index]
                   ELSE /\ thrown' = ""
                        /\ generated' = [err |-> "", kind |-> outcome, publicSignals |-> signals,
                                         index |-> index, y |-> share.y,
                                         nullifier |-> share.nullifier, root |-> getRoot']
    /\ UNCHANGED <<rlnIdentities, calls, contractVars, shareVars, cliVars>>

\* rln.registerIdentity(new RLNIdentity(secret))
RegisterSecret(secret) ==
    /\ Len(rlnIdentities) < MaxProofIdentities
    /\ SdkRegisterIdentity(getCommitment(secret))

NextProof ==
    \/ RlnInit
    \/ \E secret \in Secrets : RegisterSecret(secret)
    \/ \E i \in ProofIdentityIndices, t \in Texts, ext \in ProofExternalNullifiers,
          id \in MessageIds, o \in ProverOutcomes :
          SdkGenerateProof(i, t, ext, id, o)

SpecProof == InitRln /\ [][NextProof]_vars

(* Claims about proof objects and the CLI, checked under SpecCli. *)

\* the share the SDK computes for a saved message
ShareOfMessage(m) ==
    ShareOf(SecretOf(m.identityIndex), m.externalNullifier, SignalHashOf(m.text), m.id)

\* C14 (as claimed): every proof generateProof returns carries five public
\* signals in the order [externalNullifier, y, nullifier, root, signalHash]:
\* getPublicSignals() gives the share's nullifier, its y and the tree root,
\* and publicSignals[2], which the CLI reads, is the nullifier.
C14_PublicSignalOrder ==
    \A k \in 1..Len(messagesFile) :
        LET m == messagesFile[k]
            signals == getPublicSignals(m.publicSignals)
        IN  /\ Len(m.publicSignals) = 5
            /\ signals.externalNullifier = m.externalNullifier
            /\ signals.y = ShareOfMessage(m).y
            /\ signals.nullifier = ShareOfMessage(m).nullifier
            /\ signals.root = getRoot
            /\ signals.signalHash = SignalHashOf(m.text)
            /\ m.publicSignals[3] = ShareOfMessage(m).nullifier

\* two saved messages of one identity and one epoch with different signal hashes
DoublePost(i, j) ==
    /\ i # j
    /\ messagesFile[i].identityIndex = messagesFile[j].identityIndex
    /\ messagesFile[i].epoch = messagesFile[j].epoch
    /\ SignalHashOf(messagesFile[i].text) # SignalHashOf(messagesFile[j].text)

\* the last detect-spam run analyzed the messages file as it is now
ReportIsCurrent == spamReport.analyzed = Len(messagesFile) /\ Len(messagesFile) > 0

\* C15 (as claimed): a share submitted again with the same signal hash in one
\* epoch is not reported: when no identity has two saved messages with
\* different signal hashes in one epoch, detect-spam reports no spam.
C15_ResubmissionNotReported ==
    (/\ ReportIsCurrent
     /\ ~\E i \in 1..Len(messagesFile), j \in 1..Len(messagesFile) : DoublePost(i, j))
    => ~spamReport.spamFound

\* C20 (as claimed): when one identity has posted two different messages in
\* one epoch with post-message, the two saved messages carry the same
\* nullifier and detect-spam reports spam.
C20_DoublePostReported ==
    ReportIsCurrent =>
        \A i \in 1..Len(messagesFile), j \in 1..Len(messagesFile) :
            (/\ i # j
             /\ messagesFile[i].identityIndex = messagesFile[j].identityIndex
             /\ messagesFile[i].epoch = messagesFile[j].epoch
             /\ messagesFile[i].text # messagesFile[j].text)
            => /\ messagesFile[i].publicSignals[3] = messagesFile[j].publicSignals[3]
               /\ spamReport.spamFound

\* detect-spam reports spam exactly when two saved messages of one epoch have
\* the same publicSignals[2], whatever their signal hashes
SpamIsDuplicateThirdSignal ==
    ReportIsCurrent =>
        (spamReport.spamFound <=>
            \E i \in 1..Len(messagesFile), j \in 1..Len(messagesFile) :
                /\ i # j
                /\ messagesFile[i].epoch = messagesFile[j].epoch
                /\ messagesFile[i].publicSignals[3] = messagesFile[j].publicSignals[3])

\* the nullifiers the SDK computes for two saved messages always differ: each
\* post takes its messageId from the clock
NullifiersAllDiffer ==
    \A i \in 1..Len(messagesFile), j \in 1..Len(messagesFile) :
        i # j => ShareOfMessage(messagesFile[i]).nullifier # ShareOfMessage(messagesFile[j]).nullifier

\* the x of the share a saved message's proof carries
XOfMessage(m) == IF m.proof = "groth16" THEN m.publicSignals[4] ELSE m.publicSignals[1]

\* C21: two string signals that differ in any 31-byte chunk get different
\* signal hashes, so the shares of two saved messages with different texts
\* have different x values.
C21_EveryChunkHashed ==
    \A i \in 1..Len(messagesFile), j \in 1..Len(messagesFile) :
        messagesFile[i].text # messagesFile[j].text
            => XOfMessage(messagesFile[i]) # XOfMessage(messagesFile[j])

\* what the code does instead: the first chunk alone decides the x
FirstChunkDecidesX ==
    \A i \in 1..Len(messagesFile), j \in 1..Len(messagesFile) :
        (messagesFile[i].text[1] = messagesFile[j].text[1])
            <=> (XOfMessage(messagesFile[i]) = XOfMessage(messagesFile[j]))

(* Claims about getProof, checked under SpecTree. *)

\* C22 (as claimed): getProof(index) with an index greater than or equal to
\* the number of leaves reports an out-of-range error instead of returning
\* a path.
C22_ProofOutOfRangeRejected ==
    [][\A index \in ProofIndices :
          (index >= Len(leaves) /\ GetProof(index))
          => (thrown' # "" /\ lastProof'.pathElements = <<>>)]_vars

\* getProof never throws: it returns a path for every index
GetProofAlwaysReturnsPath ==
    [][\A index \in ProofIndices :
          GetProof(index) => (thrown' = "" /\ Len(lastProof'.pathElements) = TreeLevels - 1)]_vars

(* Further claims about the contract, checked under Spec. *)

\* C23: ledger entries are append-only: no call changes or removes the
\* entry of a recorded nullifier (its message, its used flag, its recorded
\* epoch), and the nullifier list of every epoch only grows by appending.
C23_LedgerAppendOnly ==
    [][/\ Len(messages') >= Len(messages)
       /\ \A i \in 1..Len(messages) : messages'[i] = messages[i]
       /\ \A n \in Nullifiers :
              Recorded(n) => /\ usedNullifiers'[n]
                             /\ nullifierToEpoch'[n] = nullifierToEpoch[n]
       /\ \A e \in Epochs :
              /\ Len(epochMessages'[e]) >= Len(epochMessages[e])
              /\ SubSeq(epochMessages'[e], 1, Len(epochMessages[e])) = epochMessages[e]]_vars

\* C23 witness: two entries are recorded, one of them in a later epoch, and
\* a slash call has run after them
C23_Witness ==
    /\ messageCount = 2
    /\ op = "slash"
    /\ \E n \in Nullifiers : Recorded(n) /\ nullifierToEpoch[n] = 1

(* Further claims about the MerkleTree, checked under SpecTree. *)

\* C24 (as claimed): after any sequence of inserts the tree's layers and
\* its getRoot() are those of a new MerkleTree constructed from the same
\* list of leaves, and the tree holds exactly levels layers.
C24_InsertRebuildsTree ==
    /\ layers = buildTree(<<leaves>>, 0)
    /\ getRoot = buildTree(<<leaves>>, 0)[TreeLevels][1]
    /\ Len(layers) = TreeLevels

\* what insert does instead: every call adds levels - 1 layers on top of
\* the old ones, and the layers the constructor built above the leaves stay
LayersPileUp ==
    [][\A leaf \in LeafValues :
          Insert(leaf) => /\ Len(layers') = Len(layers) + TreeLevels - 1
                          /\ \A k \in 2..Len(layers) : layers'[k] = layers[k]]_vars

(* Further claims about recoverSecret, checked under SpecRecover. *)

\* C25 (as claimed): on two shares of one identity in one epoch, that is
\* two points with different x on a line y = secret + a1 * x of the field,
\* the contract's recoverSecret returns the secret the SDK's recoverSecret
\* returns.
C25_ContractAgreesWithSdk ==
    [][\A i \in Slots, j \in Slots :
          (/\ ContractRecover(i, j)
           /\ shares[i].x \in F /\ shares[j].x \in F
           /\ shares[i].x # shares[j].x)
          => \E o \in SdkRecoverSecret(shares[i], shares[j]) :
                /\ o.err = ""
                /\ recovered'.err = ""
                /\ toString(recovered'.number) = o.value]_vars

(* Claims about slash, checked under Spec. *)

\* the two nullifiers were recorded in the same epoch with different signal
\* hashes
SlashableOffense(n1, n2) ==
    /\ Recorded(n1) /\ Recorded(n2)
    /\ nullifierToEpoch[n1] = nullifierToEpoch[n2]
    /\ messages[findMessageByNullifier(n1) + 1].signalHash #
       messages[findMessageByNullifier(n2) + 1].signalHash

\* C26: slash sets no slashed flag and transfers nothing unless both of its
\* nullifiers were recorded in the same epoch with different signal hashes;
\* in every other case it fails and changes no state.
C26_SlashOnlyOnOffense ==
    [][\A s \in Accounts, n1 \in Nullifiers, n2 \in Nullifiers, c \in Commitments :
          (Slash(s, n1, n2, c) /\ ~SlashableOffense(n1, n2))
          => /\ result' # "ok"
             /\ UNCHANGED <<identities, messages, epochMessages, usedNullifiers,
                            nullifierToEpoch, identityCount, messageCount, merkleRoot,
                            balance, received, events>>]_vars

\* C26 witness: slash was refused on recorded nullifiers of different epochs
C26_Witness ==
    /\ op = "slash"
    /\ result = "NoSlashableOffense"
    /\ \E n1 \in Nullifiers, n2 \in Nullifiers :
          /\ Recorded(n1) /\ Recorded(n2)
          /\ nullifierToEpoch[n1] # nullifierToEpoch[n2]

(* Claims about verifyProof, checked under SpecCli. *)

\* C28 (as claimed): the verdict of verifyProof is the external verifier's
\* verdict on the proof and its public signals, for every proof object: it
\* never answers true for a proof the external verifier rejects.
C28_VerdictIsExternalVerdict ==
    [][\A i \in 0..(MaxPosts - 1), k \in BOOLEAN, v \in BOOLEAN :
          (VerifyMessage(i, k, v) /\ verification'.err = "")
          => verification'.isValid = v]_vars

\* for every proof object other than the mock proof, verifyProof answers
\* what the external verifier answers
RealProofVerdictIsExternal ==
    [][\A i \in 0..(MaxPosts - 1), k \in BOOLEAN, v \in BOOLEAN :
          (/\ VerifyMessage(i, k, v)
           /\ verification'.err = ""
           /\ ~IsMockProof(messagesFile[i + 1].proof))
          => verification'.isValid = v]_vars

(* Claims about concurrent registerIdentity calls, checked under           *)
(* SpecRlnAsync.                                                           *)

Returned(k) == k \in 1..Len(calls) /\ calls[k].at = "returned"

\* C29 (as claimed): of the registerIdentity calls interleaved on an
\* initialised instance, every one returns a distinct index, and the index
\* a call returns is the position of its commitment in the tree's leaves
\* and in the identities list.
C29_ReturnedIndexIsPosition ==
    [][\A k \in 1..MaxCalls :
          (ResumeRegister(k) /\ calls[k].initialised)
          => /\ \A j \in 1..Len(calls) : (j # k /\ Returned(j)) => calls[j].index # calls'[k].index
             /\ calls'[k].index < Len(rlnIdentities')
             /\ rlnIdentities'[calls'[k].index + 1] = calls[k].commitment
             /\ calls'[k].index < Len(leaves')
             /\ leaves'[calls'[k].index + 1] = calls[k].commitment]_vars

\* the part that holds: returned indices are distinct, and each is the
\* position of the call's commitment in the identities list
ReturnedIndexIsListPosition ==
    \A k \in 1..Len(calls) : Returned(k) =>
        /\ \A j \in 1..Len(calls) : (j # k /\ Returned(j)) => calls[j].index # calls[k].index
        /\ calls[k].index < Len(rlnIdentities)
        /\ rlnIdentities[calls[k].index + 1] = calls[k].commitment

\* when the identities list and the leaves are of one length as a call
\* resumes, the index it returns is its commitment's position in the leaves
InStepIndexIsLeafPosition ==
    [][\A k \in 1..MaxCalls :
          (ResumeRegister(k) /\ calls[k].initialised /\ Len(rlnIdentities) = Len(leaves))
          => leaves'[calls'[k].index + 1] = calls[k].commitment]_vars

(* Claims about the shape of a proof, checked under SpecTree. *)

\* the direction bit of the node above leaf index at the given level: 0 for
\* a left child, 1 for a right child
DirectionBit(index, level) == (index \div 2^level) % 2

\* C30 (as claimed): for a tree configured with height DEPTH, getProof of a
\* leaf's index returns exactly DEPTH sibling elements and exactly DEPTH
\* direction bits, each bit 0 for a left child and 1 for a right child.
C30_ProofHasDepthElements ==
    (lastProof # NoProof /\ lastProof.index < Len(leaves))
    => /\ Len(lastProof.pathElements) = TreeLevels
       /\ Len(lastProof.pathIndices) = TreeLevels
       /\ \A k \in 1..Len(lastProof.pathIndices) :
              lastProof.pathIndices[k] = DirectionBit(lastProof.index, k - 1)

\* what getProof returns instead: one element and one bit fewer than the
\* configured height, the bits being the directions
ProofHasDepthMinusOneElements ==
    (lastProof # NoProof /\ lastProof.index < Len(leaves))
    => /\ Len(lastProof.pathElements) = TreeLevels - 1
       /\ Len(lastProof.pathIndices) = TreeLevels - 1
       /\ \A k \in 1..Len(lastProof.pathIndices) :
              lastProof.pathIndices[k] = DirectionBit(lastProof.index, k - 1)

(* Claims about what post-message stores, checked under SpecCli. *)

\* C31 (as claimed): post-message appends a message to the stored list only
\* when verifyProof answered true for its proof; when the verification is
\* INVALID the stored list is unchanged.
C31_InvalidProofNotSaved ==
    [][(/\ rlnIdentities' # <<>>
        /\ verification' # verification
        /\ verification'.err = ""
        /\ ~verification'.isValid)
       => UNCHANGED messagesFile]_vars

\* no run of the CLI gets the answer INVALID from verifyProof: the message
\* id of post-message is Date.now(), which fails the circuit's RangeCheck,
\* so the only proofs the CLI ever holds are mock proofs
CliVerdictNeverInvalid ==
    (verification # NoVerification /\ verification.err = "") => verification.isValid

\* what post-message does instead: once the proof is generated and
\* verifyProof has returned, the message is saved whatever the answer was
SavedWhateverTheVerdict ==
    [][(/\ rlnIdentities' # <<>>
        /\ verification' # verification
        /\ verification'.err = "")
       => Len(messagesFile') = Len(messagesFile) + 1]_vars

(* Invariants of the contract's ledger, checked under Spec. *)

RECURSIVE TotalEpochMessages(_)
TotalEpochMessages(S) ==
    IF S = {} THEN 0
    ELSE LET e == CHOOSE x \in S : TRUE
         IN  Len(getEpochMessages(e)) + TotalEpochMessages(S \ {e})

\* how often nullifier n occurs in the list of epoch e
Occurrences(n, e) == Cardinality({k \in 1..Len(getEpochMessages(e)) : getEpochMessages(e)[k] = n})

\* C33: in every reachable state messageCount is the number of accepted
\* postMessage calls and the sum of the lengths of all epochMessages lists;
\* the nullifiers stored in messages[0 .. messageCount-1] are pairwise
\* distinct, and each occurs exactly once in epochMessages, in the list of
\* the epoch nullifierToEpoch gives.
C33_LedgerCountsAgree ==
    /\ messageCount = Len(messages)
    /\ messageCount = Cardinality({ev \in events : ev.name = "MessagePosted"})
    /\ messageCount = TotalEpochMessages(Epochs)
    /\ \A i \in 1..Len(messages), j \in 1..Len(messages) :
          i # j => messages[i].nullifier # messages[j].nullifier
    /\ \A i \in 1..Len(messages) : \A e \in Epochs :
          Occurrences(messages[i].nullifier, e) =
             IF e = nullifierToEpoch[messages[i].nullifier] THEN 1 ELSE 0

\* C33 witness: two messages are recorded, one in each epoch, and a third
\* postMessage repeating a nullifier was rejected
C33_Witness ==
    /\ messageCount = 2
    /\ \A e \in Epochs : Len(getEpochMessages(e)) = 1
    /\ op = "postMessage"
    /\ result = "NullifierAlreadyUsed"

(* Claims about the identities list and the tree, checked under SpecRln. *)

\* C34 (as claimed): after any sequence of init() and registerIdentity()
\* calls, repeated init() included, the identities list and the tree's
\* leaves have the same length and identities[i].commitment is leaf i.
C34_IdentitiesMatchLeaves ==
    ~TreeIsNull =>
        /\ Len(rlnIdentities) = Len(leaves)
        /\ \A i \in 1..Len(rlnIdentities) : rlnIdentities[i] = leaves[i]

\* what holds instead: the leaves are the commitments registered since the
\* last init(), the last entries of the identities list
LeavesAreLastIdentities ==
    /\ Len(leaves) <= Len(rlnIdentities)
    /\ \A i \in 1..Len(leaves) :
          leaves[i] = rlnIdentities[Len(rlnIdentities) - Len(leaves) + i]

(* Claims about the circuit and the SDK, checked under SpecProof. *)

\* generateProof returned a proof the prover made from the witness
ProvedByCircuit == generated.err = "" /\ generated.kind = "groth16"

\* C35 (as claimed): the Merkle root the circuit recomputes from the
\* witness generateProof builds equals the SDK tree's getRoot().
C35_CircuitRootIsTreeRoot ==
    (ProvedByCircuit /\ leaves = rlnIdentities)
    => generated.publicSignals[2] = generated.root

\* what holds instead: the circuit's root is never the tree's getRoot()
CircuitRootNeverTreeRoot ==
    ProvedByCircuit => generated.publicSignals[2] # generated.root

\* C36 (as claimed): for the same identitySecret, externalNullifier,
\* messageId and signal hash x, the share (y, nullifier) generateShare
\* computes equals the (y, nullifier) outputs of the circuit on the witness
\* generateProof builds.
C36_ShareIsCircuitOutput ==
    ProvedByCircuit => /\ generated.y = generated.publicSignals[1]
                       /\ generated.nullifier = generated.publicSignals[3]

\* what holds instead: the two nullifiers always differ, and so do the two
\* y values
ShareNeverCircuitOutput ==
    ProvedByCircuit => /\ generated.y # generated.publicSignals[1]
                       /\ generated.nullifier # generated.publicSignals[3]

\* on the fallback path the signals carry the SDK's own share and root
MockSignalsAreSdkValues ==
    (generated.err = "" /\ generated.kind = "mock")
    => /\ generated.publicSignals[3] = generated.y
       /\ generated.publicSignals[4] = generated.nullifier
       /\ generated.publicSignals[5] = generated.root

(* Claims about the contract's balance, checked under Spec. *)

\* the sum of the recorded deposits of the registered identities of S whose
\* slashed flag is false
RECURSIVE UnslashedDeposits(_)
UnslashedDeposits(S) ==
    IF S = {} THEN 0
    ELSE LET c == CHOOSE x \in S : TRUE
         IN  (IF Registered(c) /\ ~identities[c].slashed THEN identities[c].deposit ELSE 0)
             + UnslashedDeposits(S \ {c})

\* C37: after any sequence of registerIdentity, postMessage, slash and
\* updateRoot calls the contract's balance is at least the sum of the
\* recorded deposits of the registered, unslashed identities, and no slash
\* fails for lack of funds.
C37_BalanceCoversDeposits ==
    /\ balance >= UnslashedDeposits(Commitments)
    /\ result # "TransferFailed"

\* C37 witness: a commitment has been registered by two payments, of which
\* the registry records the last, and a slash call has run
C37_Witness ==
    /\ op = "slash"
    /\ identityCount = 2
    /\ \E c \in Commitments : Registered(c)
    /\ balance > UnslashedDeposits(Commitments)
====
